---- MODULE Spec2Model ----
(***************************************************************************)
(* A model of the helical data-to-embedding pipeline and of the            *)
(* Classifier that binds an embedding-producing base model to a head.      *)
(*                                                                         *)
(*   Spec      the Classifier driven by one thread: any sequence of        *)
(*             train_classifier_head, load_model and get_predictions.      *)
(*   SpecConc  two threads inside get_predictions on one ready Classifier  *)
(*             over an scGPT base model, interleaved statement by          *)
(*             statement.                                                  *)
(*   SpecData  process_data of scGPT and of UCE applied to every small     *)
(*             annotated matrix, with consistent reference tables.         *)
(*   SpecAlign UCE.process_data over reference tables that may return      *)
(*             per-gene arrays of the wrong length.                        *)
(*   SpecEmb   the batch loops of scGPT.get_embeddings and of              *)
(*             UCE.get_embeddings, the latter also on each process of an   *)
(*             accelerator run.                                            *)
(*   SpecIdem  get_predictions called repeatedly on the same AnnData, with *)
(*             scGPT's process_data and collator carried out on the data.  *)
(*   SpecBench the benchmark Classifier: its label encoder and the task    *)
(*             model it trains for several named models.                   *)
(***************************************************************************)
EXTENDS Integers, Sequences, FiniteSets, TLC

None == "None"

(***************************************************************************)
(* The objects a caller can hand to the Classifier.  An object is known    *)
(* by its class name; what matters to the code is which methods it has     *)
(* (the runtime_checkable protocols look for attributes only) and whether  *)
(* it is truthy (load_model tests `if base_model and ...`).                *)
(***************************************************************************)
BaseModelObjs == {"scGPT", "UCE", "NoEmbeddings", "NoProcessData", "EmptyList"}

\* NeuralNetwork is the repository's head; SVM stands for a head whose
\* compile takes (num_classes, input_shape); NoPredict has no predict.
HeadObjs == {"NeuralNetwork", "SVM", "NoPredict"}

TrainableHeads == {"NeuralNetwork", "SVM"}

HasProcessData(b) == b \in {"scGPT", "UCE", "NoEmbeddings"}

HasGetEmbeddings(b) == b \in {"scGPT", "UCE", "NoProcessData"}

HasPredict(h) == h \in {"NeuralNetwork", "SVM"}

\* Whether head.compile can be called with two positional arguments:
\* NeuralNetwork.compile(self) takes none.
CompileAcceptsTwoArgs(h) == h # "NeuralNetwork"

\* bool(obj): None and an empty container are falsy.
Truthy(b) == b \notin {None, "EmptyList"}

\* isinstance(b, BaseModelProtocol)
IsBaseModelProtocol(b) == b # None /\ HasProcessData(b) /\ HasGetEmbeddings(b)

\* isinstance(h, ClassificationModelProtocol)
IsClassificationModelProtocol(h) == h # None /\ HasPredict(h)

\* obj.__class__.__name__
ClassName(o) == IF o = None THEN "NoneType" ELSE o

\* The annotated matrices handed in: one carries the label column, one not.
Data == {"adLabelled", "adUnlabelled"}

HasLabels(x) == x = "adLabelled"

GeneCols == {"index", "gene_symbols"}

\* Names are tuples of words, so that a composite name can be formed.
LoadNames == {<<"my model">>, <<"other model">>}

\* The name of a Classifier that has none (Python's None).
NoName == <<>>

\* No successful training is the last state-changing call.
NoTraining == [base_model |-> None, gene_col_name |-> None]

(***************************************************************************)
(* The collaborators' results, kept symbolic: a dataset remembers the base *)
(* model, the data and the gene column it was built from, and so on.       *)
(***************************************************************************)
DatasetOf(b, x, col) == <<"dataset", b, x, col>>

EmbeddingsOf(b, ds) == <<"embeddings", b, ds>>

PredictionsOf(h, x) == <<"predictions", h, x>>

CallProcessData(b, x, col) == <<"process_data", b, x, col>>

CallGetEmbeddings(b, ds) == <<"get_embeddings", b, ds>>

\* y = train_anndata.obs[labels_column_name]; num_classes = len(np.unique(y))
LabelsOf(x) == <<"labels", x>>

NumClassesOf(x) == <<"number of distinct labels", x>>

\* x.shape[1]
WidthOf(emb) == <<"width", emb>>

\* train_test_split(x, y, test_size, random_state)
SplitOf(emb, y) == <<"split", emb, y>>

CallSplit(emb, y) == <<"train_test_split", emb, y>>

CallCompile(h, num_classes, width) == <<"compile", h, num_classes, width>>

\* head.train(X_train, y_train, validation_data=(X_test, y_test))
CallTrain(h, split) == <<"train", h, <<"train part", split>>,
                         <<"test part", split>>>>

CallPredict(h, x) == <<"predict", h, x>>

VARIABLES
    trained_task_model,   \* Classifier.trained_task_model
    base_model,           \* Classifier.base_model
    name,                 \* Classifier.name
    gene_col_name,        \* Classifier.gene_col_name
    lastOp,               \* the last call made on the Classifier, as observed
    everBound,            \* history: some train/load call has completed
    trainedWith,          \* history: what the last call, a successful
                          \* train_classifier_head, was given
    pc,                   \* per thread: the statement of get_predictions /
                          \* scGPT.process_data it is about to run
    targ,                 \* per thread: the arguments of its call
    tloc,                 \* per thread: its local variables
    scgpt_gene_column_name,  \* scGPT.gene_column_name of the base model
    scgpt_adata,          \* scGPT.adata of the base model
    fieldWrites,          \* history: Classifier fields written by the threads
    adata,                \* the caller's AnnData object (mutable)
    vocab_default_index,  \* scGPT.vocab: its default index
    refTables,            \* the species reference tables: "consistent", or
                          \* "corrupt" (rows missing or duplicated)
    pdIn,                 \* the AnnData as it was when process_data was called
    pdOut,                \* what the last process_data call produced
    embRun,               \* a get_embeddings call: its configuration, its
                          \* position in the batch loop and its result
    predRun,              \* repeated get_predictions calls on one AnnData:
                          \* their gene column and what each call computed
    bench                 \* the benchmark Classifier (benchmark/tasks)

clsVars == <<trained_task_model, base_model, name, gene_col_name>>

obsVars == <<lastOp, everBound, trainedWith>>

concVars == <<pc, targ, tloc, scgpt_gene_column_name, scgpt_adata, fieldWrites>>

dataVars == <<adata, vocab_default_index, refTables, pdIn, pdOut>>

vars == <<clsVars, obsVars, concVars, dataVars, embRun, predRun, bench>>

\* The Classifier's fields, as one record.
Fields ==
    [trained_task_model |-> trained_task_model, base_model |-> base_model,
     name |-> name, gene_col_name |-> gene_col_name]

NoOp == [op |-> "init"]

Threads == {1, 2}

\* A thread's locals before it has computed anything.
NoLocals ==
    [calledWith |-> <<>>, col195 |-> None, dataset |-> <<>>, input |-> <<>>,
     result |-> <<>>]

\* No thread is inside the Classifier.
ConcIdle ==
    /\ pc = [t \in Threads |-> "idle"]
    /\ targ = [t \in Threads |-> [x |-> None, gene_col_name |-> None]]
    /\ tloc = [t \in Threads |-> NoLocals]
    /\ scgpt_gene_column_name = None
    /\ scgpt_adata = None
    /\ fieldWrites = {}

NoAdata ==
    [genes |-> <<>>, X |-> <<>>, var_cols |-> {}, var_index |-> None,
     lognorm |-> 0]

NoDataset == [model |-> None]

\* No process_data call has been made.
DataIdle ==
    /\ adata = NoAdata
    /\ vocab_default_index = <<>>
    /\ refTables = "consistent"
    /\ pdIn = NoAdata
    /\ pdOut = NoDataset

\* No get_embeddings call has been made, and none of the runs below is on.
EmbIdle ==
    /\ embRun = [model |-> None]
    /\ predRun = [col |-> None]
    /\ bench = [constructed |-> FALSE]

\* Classifier.__init__
ClassifierInit ==
    /\ trained_task_model = None
    /\ base_model = None
    /\ name = NoName
    /\ gene_col_name = None
    /\ lastOp = NoOp
    /\ everBound = FALSE
    /\ trainedWith = NoTraining

\* A bug get_predictions could have: the embeddings never replace x.
PredictInputRaw(bm, x, emb) == x

\* What get_predictions hands to the head: `x = embeddings` under a base model.
PredictInput(bm, x, emb) == IF bm # None THEN emb ELSE x

(***************************************************************************)
(* Classifier.get_predictions(x, gene_col_name), run on the fields `st`.   *)
(* `raises` names the collaborator call that raises, if it is reached.     *)
(* The result: the fields afterwards, the collaborator calls made in       *)
(* order, whether the call returned, and what it returned.                 *)
(***************************************************************************)
GetPredictionsRun(st, x, col, raises) ==
    LET bm == st.base_model
        h == st.trained_task_model
        \* if self.base_model is not None: self.gene_col_name = gene_col_name
        st1 == IF bm # None THEN [st EXCEPT !.gene_col_name = col] ELSE st
        ds == DatasetOf(bm, x, st1.gene_col_name)
        emb == EmbeddingsOf(bm, ds)
        baseCalls ==
            IF bm = None \/ ~HasProcessData(bm) THEN <<>>
            ELSE IF raises = "process_data" \/ ~HasGetEmbeddings(bm)
            THEN <<CallProcessData(bm, x, st1.gene_col_name)>>
            ELSE <<CallProcessData(bm, x, st1.gene_col_name),
                   CallGetEmbeddings(bm, ds)>>
        baseOk ==
            \/ bm = None
            \/ /\ HasProcessData(bm) /\ HasGetEmbeddings(bm)
               /\ raises \notin {"process_data", "get_embeddings"}
        input == PredictInput(bm, x, emb)
        canPredict == baseOk /\ h # None /\ HasPredict(h)
        ok == canPredict /\ raises # "predict"
    IN  [fields |-> st1,
         calls |-> baseCalls \o (IF canPredict THEN <<CallPredict(h, input)>>
                                 ELSE <<>>),
         ok |-> ok,
         result |-> IF ok THEN PredictionsOf(h, input) ELSE None]

\* Classifier._check_validity_for_training: TRUE when it raises TypeError.
check_validity_for_training(x, bm) ==
    ~IsBaseModelProtocol(bm) \/ ~HasLabels(x)

\* The composite name f"{base_model class} with {head class}".
CompositeName(bm, head) == <<ClassName(bm), "with", ClassName(head)>>

\* A bug train_classifier_head could have: the head is bound before training.
TrainEarlyWritesHead(st, bm, head) ==
    [st EXCEPT !.base_model = bm, !.name = CompositeName(bm, head),
               !.trained_task_model = head]

\* What train_classifier_head assigns before it validates (lines 98-99).
TrainEarlyWrites(st, bm, head) ==
    [st EXCEPT !.base_model = bm, !.name = CompositeName(bm, head)]

(***************************************************************************)
(* Classifier.train_classifier_head(train_anndata, base_model, head,       *)
(* gene_col_name), the label column being "cell_type".                     *)
(***************************************************************************)
TrainRun(st, x, bm, head, col, raises) ==
    LET st1 == TrainEarlyWrites(st, bm, head)
        st2 == [st1 EXCEPT !.gene_col_name = col]
        \* head.train returns the trained head (NeuralNetwork.train: self)
        st3 == [st2 EXCEPT !.trained_task_model = head]
        ds == DatasetOf(bm, x, col)
        emb == EmbeddingsOf(bm, ds)
        c1 == <<CallProcessData(bm, x, col)>>
        c2 == c1 \o <<CallGetEmbeddings(bm, ds)>>
        y == LabelsOf(x)
        c3 == c2 \o <<CallSplit(emb, y),
                       CallCompile(head, NumClassesOf(x), WidthOf(emb))>>
        c4 == c3 \o <<CallTrain(head, SplitOf(emb, y))>>
    IN  IF check_validity_for_training(x, bm)
        THEN [fields |-> st1, calls |-> <<>>, ok |-> FALSE, result |-> "TypeError"]
        ELSE IF raises = "process_data"
        THEN [fields |-> st1, calls |-> c1, ok |-> FALSE, result |-> "raised"]
        ELSE IF raises = "get_embeddings"
        THEN [fields |-> st2, calls |-> c2, ok |-> FALSE, result |-> "raised"]
        ELSE IF ~CompileAcceptsTwoArgs(head)
        THEN [fields |-> st2, calls |-> c3, ok |-> FALSE, result |-> "TypeError"]
        ELSE IF raises = "compile"
        THEN [fields |-> st2, calls |-> c3, ok |-> FALSE, result |-> "raised"]
        ELSE IF raises = "train"
        THEN [fields |-> st2, calls |-> c4, ok |-> FALSE, result |-> "raised"]
        ELSE [fields |-> st3, calls |-> c4, ok |-> TRUE, result |-> "self"]

\* load_model's first check: a base model was given and is no BaseModelProtocol.
LoadRejectsBaseModel(bm) == Truthy(bm) /\ ~IsBaseModelProtocol(bm)

\* load_model's second check.
LoadRejectsClassificationModel(cm) == ~IsClassificationModelProtocol(cm)

\* Classifier.load_model(base_model, classification_model, name)
LoadRun(st, bm, cm, nm) ==
    IF LoadRejectsBaseModel(bm) \/ LoadRejectsClassificationModel(cm)
    THEN [fields |-> st, calls |-> <<>>, ok |-> FALSE, result |-> "TypeError"]
    ELSE [fields |-> [st EXCEPT !.base_model = bm,
                                !.trained_task_model = cm,
                                !.name = nm],
          calls |-> <<>>, ok |-> TRUE, result |-> "self"]

\* The fields and the observation of a finished call become the new state.
Commit(run, op, args) ==
    /\ trained_task_model' = run.fields.trained_task_model
    /\ base_model' = run.fields.base_model
    /\ name' = run.fields.name
    /\ gene_col_name' = run.fields.gene_col_name
    /\ lastOp' = [op |-> op, args |-> args, pre |-> Fields, ok |-> run.ok,
                  calls |-> run.calls, result |-> run.result]

PredictRaises == {"no", "process_data", "get_embeddings", "predict"}

TrainRaises == {"no", "process_data", "get_embeddings", "compile", "train"}

get_predictions ==
    \E x \in Data, col \in GeneCols, raises \in PredictRaises :
        /\ Commit(GetPredictionsRun(Fields, x, col, raises), "get_predictions",
                  [x |-> x, gene_col_name |-> col])
        /\ UNCHANGED <<everBound, trainedWith, concVars, dataVars,
                       embRun, predRun, bench>>

train_classifier_head ==
    \E x \in Data, bm \in BaseModelObjs \cup {None}, head \in TrainableHeads,
       col \in GeneCols :
      \E raises \in IF check_validity_for_training(x, bm) THEN {"no"}
                     ELSE TrainRaises :
        LET run == TrainRun(Fields, x, bm, head, col, raises)
        IN  /\ Commit(run, "train_classifier_head",
                      [x |-> x, base_model |-> bm, head |-> head,
                       gene_col_name |-> col, raises |-> raises])
            /\ everBound' = (everBound \/ run.ok)
            /\ trainedWith' = IF run.ok
                              THEN [base_model |-> bm, gene_col_name |-> col]
                              ELSE NoTraining
            /\ UNCHANGED <<concVars, dataVars, embRun, predRun, bench>>

load_model ==
    \E bm \in BaseModelObjs \cup {None}, cm \in HeadObjs \cup {None},
       nm \in LoadNames :
        LET run == LoadRun(Fields, bm, cm, nm)
        IN  /\ Commit(run, "load_model",
                      [base_model |-> bm, classification_model |-> cm,
                       name |-> nm])
            /\ everBound' = (everBound \/ run.ok)
            /\ trainedWith' = NoTraining
            /\ UNCHANGED <<concVars, dataVars, embRun, predRun, bench>>

Init == ClassifierInit /\ ConcIdle /\ DataIdle /\ EmbIdle

Next ==
    \/ get_predictions
    \/ train_classifier_head
    \/ load_model

Spec == Init /\ [][Next]_vars

(***************************************************************************)
(* The claims about the Classifier, checked under Spec.                    *)
(***************************************************************************)
IsPrefix(s, t) == Len(s) <= Len(t) /\ SubSeq(t, 1, Len(s)) = s

BaseModelCalls == {"process_data", "get_embeddings"}

HeadCalls == {"compile", "train"}

CallsNamed(calls, names) == {i \in 1..Len(calls) : calls[i][1] \in names}

\* The calls the contract of get_predictions prescribes, in order.
C1_Expected(pre, x, col) ==
    LET bm == pre.base_model
        h == pre.trained_task_model
        ds == DatasetOf(bm, x, col)
        emb == EmbeddingsOf(bm, ds)
    IN  IF bm # None
        THEN [calls |-> <<CallProcessData(bm, x, col), CallGetEmbeddings(bm, ds),
                          CallPredict(h, emb)>>,
              result |-> PredictionsOf(h, emb)]
        ELSE [calls |-> <<CallPredict(h, x)>>, result |-> PredictionsOf(h, x)]

\* C1: get_predictions dispatches on the bound base model. With a base model
\* bound it calls process_data(data, gene_column), get_embeddings on that
\* dataset and the head's predict on the embeddings, and returns that result;
\* with none bound it calls the head's predict on data and no base-model
\* operation. A call that raises has made a prefix of these calls.
C1_GetPredictionsDispatch ==
    lastOp.op = "get_predictions" =>
        LET want == C1_Expected(lastOp.pre, lastOp.args.x,
                                lastOp.args.gene_col_name)
        IN  /\ IsPrefix(lastOp.calls, want.calls)
            /\ lastOp.ok => /\ lastOp.calls = want.calls
                            /\ lastOp.result = want.result
            /\ lastOp.pre.base_model = None =>
                   CallsNamed(lastOp.calls, BaseModelCalls) = {}

\* C1 witness: a get_predictions call under a bound base model has returned.
C1_Witness ==
    /\ lastOp.op = "get_predictions"
    /\ lastOp.ok
    /\ lastOp.pre.base_model # None
    /\ Len(lastOp.calls) = 3

\* C2: train_classifier_head given a base model without the
\* embedding-producer capability, or data without the label column, fails
\* before any computation and retains nothing: no base-model or head
\* operation is invoked and the fields are what they were before the call.
C2_TrainFailsFastRetainsNothing ==
    (/\ lastOp.op = "train_classifier_head"
     /\ \/ ~IsBaseModelProtocol(lastOp.args.base_model)
        \/ ~HasLabels(lastOp.args.x))
    => /\ ~lastOp.ok
       /\ CallsNamed(lastOp.calls, BaseModelCalls \cup HeadCalls) = {}
       /\ Fields = lastOp.pre

\* C3: load_model given a base model that lacks process_data or
\* get_embeddings, or a classification model that lacks predict, raises a
\* TypeError and leaves every field unchanged, from any prior state.
C3_LoadRejectsAndLeavesState ==
    (/\ lastOp.op = "load_model"
     /\ \/ /\ lastOp.args.base_model # None
           /\ ~IsBaseModelProtocol(lastOp.args.base_model)
        \/ ~IsClassificationModelProtocol(lastOp.args.classification_model))
    => /\ ~lastOp.ok
       /\ lastOp.result = "TypeError"
       /\ Fields = lastOp.pre

\* C4: a fresh Classifier has no head; a head is bound only once some
\* train_classifier_head or load_model call has completed, and a bound head
\* is never unbound again, whatever calls follow (failing ones included).
C4_HeadBoundOnlyBySuccessAndKept ==
    /\ trained_task_model = None
    /\ [][/\ trained_task_model' # None => everBound'
          /\ trained_task_model # None => trained_task_model' # None]_vars

\* C4 witness: a call failed on a Classifier whose head was bound, and the
\* head is still bound.
C4_Witness ==
    /\ lastOp.op \in {"train_classifier_head", "load_model", "get_predictions"}
    /\ ~lastOp.ok
    /\ lastOp.pre.trained_task_model # None
    /\ trained_task_model # None

\* C5: after a successful train_classifier_head, every get_predictions call
\* (no train or load in between) processes its data with the training-time
\* gene column and base model, whatever gene column the call is given, and
\* the stored gene-column-name still is the training-time one afterwards.
C5_PredictReusesTrainingGeneColumn ==
    (/\ lastOp.op = "get_predictions"
     /\ trainedWith # NoTraining)
    => /\ \A i \in CallsNamed(lastOp.calls, {"process_data"}) :
              lastOp.calls[i] = CallProcessData(trainedWith.base_model,
                                                lastOp.args.x,
                                                trainedWith.gene_col_name)
       /\ gene_col_name = trainedWith.gene_col_name

(***************************************************************************)
(* Two threads in get_predictions on the same Classifier.  CPython may     *)
(* switch threads between any two statements, and between the store of     *)
(* line 52 and the load of self.gene_col_name in line 53.  The Classifier  *)
(* is ready: trained over an scGPT base model, or loaded standalone.       *)
(***************************************************************************)
ConcInit ==
    /\ \E bm \in {"scGPT", None}, col \in GeneCols :
          /\ base_model = bm
          /\ trained_task_model = "SVM"
          /\ name = IF bm = None THEN <<"my model">>
                    ELSE CompositeName(bm, "SVM")
          /\ gene_col_name = IF bm = None THEN None ELSE col
          /\ trainedWith = IF bm = None THEN NoTraining
                           ELSE [base_model |-> bm, gene_col_name |-> col]
    /\ lastOp = NoOp
    /\ everBound = TRUE
    /\ pc = [t \in Threads |-> "L51"]
    /\ targ \in [Threads -> [x : Data, gene_col_name : GeneCols]]
    /\ tloc = [t \in Threads |-> NoLocals]
    /\ scgpt_gene_column_name = None
    /\ scgpt_adata = None
    /\ fieldWrites = {}
    /\ DataIdle
    /\ EmbIdle

\* line 51: if self.base_model is not None
GP51(t) ==
    /\ pc[t] = "L51"
    /\ IF base_model # None
       THEN /\ pc' = [pc EXCEPT ![t] = "L52"]
            /\ UNCHANGED tloc
       ELSE /\ pc' = [pc EXCEPT ![t] = "L57"]
            /\ tloc' = [tloc EXCEPT ![t].input = <<targ[t].x>>]
    /\ UNCHANGED <<clsVars, obsVars, targ, scgpt_gene_column_name, scgpt_adata,
                   fieldWrites, dataVars, embRun, predRun, bench>>

\* line 52: self.gene_col_name = gene_col_name
GP52(t) ==
    /\ pc[t] = "L52"
    /\ gene_col_name' = targ[t].gene_col_name
    /\ fieldWrites' = fieldWrites \cup {"gene_col_name"}
    /\ pc' = [pc EXCEPT ![t] = "L53"]
    /\ UNCHANGED <<trained_task_model, base_model, name, obsVars, targ, tloc,
                   scgpt_gene_column_name, scgpt_adata, dataVars,
                   embRun, predRun, bench>>

\* line 53: self.base_model.process_data(x, self.gene_col_name) is entered
GP53(t) ==
    /\ pc[t] = "L53"
    /\ tloc' = [tloc EXCEPT ![t].calledWith = <<targ[t].x, gene_col_name>>]
    /\ pc' = [pc EXCEPT ![t] = "PD184"]
    /\ UNCHANGED <<clsVars, obsVars, targ, scgpt_gene_column_name, scgpt_adata,
                   fieldWrites, dataVars, embRun, predRun, bench>>

\* scGPT.process_data lines 184-185: self.gene_column_name, self.adata
PD184(t) ==
    /\ pc[t] = "PD184"
    /\ scgpt_adata' = tloc[t].calledWith[1]
    /\ scgpt_gene_column_name' = tloc[t].calledWith[2]
    /\ pc' = [pc EXCEPT ![t] = "PD195"]
    /\ UNCHANGED <<clsVars, obsVars, targ, tloc, fieldWrites, dataVars,
                   embRun, predRun, bench>>

\* scGPT.process_data line 195: adata.var[self.gene_column_name] -> ids, mask
PD195(t) ==
    /\ pc[t] = "PD195"
    /\ tloc' = [tloc EXCEPT ![t].col195 = scgpt_gene_column_name]
    /\ pc' = [pc EXCEPT ![t] = "PD201"]
    /\ UNCHANGED <<clsVars, obsVars, targ, scgpt_gene_column_name, scgpt_adata,
                   fieldWrites, dataVars, embRun, predRun, bench>>

\* The dataset scGPT builds from the column read for the mask (line 195) and
\* the column read for the gene list (line 201), on the local adata.
ScgptDataset(x, colMask, colGenes) ==
    IF colMask = colGenes THEN DatasetOf("scGPT", x, colGenes)
    ELSE <<"dataset", "scGPT", x, colMask, colGenes>>

\* scGPT.process_data lines 201-216: adata.var[self.gene_column_name] -> genes
PD201(t) ==
    /\ pc[t] = "PD201"
    /\ tloc' = [tloc EXCEPT ![t].dataset =
                   ScgptDataset(tloc[t].calledWith[1], tloc[t].col195,
                                scgpt_gene_column_name)]
    /\ pc' = [pc EXCEPT ![t] = "L54"]
    /\ UNCHANGED <<clsVars, obsVars, targ, scgpt_gene_column_name, scgpt_adata,
                   fieldWrites, dataVars, embRun, predRun, bench>>

\* lines 54-55: embeddings = self.base_model.get_embeddings(dataset); x = ...
GP54(t) ==
    /\ pc[t] = "L54"
    /\ tloc' = [tloc EXCEPT ![t].input =
                   EmbeddingsOf(base_model, tloc[t].dataset)]
    /\ pc' = [pc EXCEPT ![t] = "L57"]
    /\ UNCHANGED <<clsVars, obsVars, targ, scgpt_gene_column_name, scgpt_adata,
                   fieldWrites, dataVars, embRun, predRun, bench>>

\* line 57: return self.trained_task_model.predict(x)
GP57(t) ==
    /\ pc[t] = "L57"
    /\ tloc' = [tloc EXCEPT ![t].result =
                   PredictionsOf(trained_task_model, tloc[t].input)]
    /\ pc' = [pc EXCEPT ![t] = "done"]
    /\ UNCHANGED <<clsVars, obsVars, targ, scgpt_gene_column_name, scgpt_adata,
                   fieldWrites, dataVars, embRun, predRun, bench>>

ConcNext ==
    \E t \in Threads :
        \/ GP51(t)
        \/ GP52(t)
        \/ GP53(t)
        \/ PD184(t)
        \/ PD195(t)
        \/ PD201(t)
        \/ GP54(t)
        \/ GP57(t)

SpecConc == ConcInit /\ [][ConcNext]_vars

\* C6: get_predictions only reads the Classifier's state: in any interleaving
\* of two get_predictions calls, each call's process_data is invoked with that
\* call's own data and gene column, and once both calls have returned no
\* Classifier field has been written by either.
C6_ConcurrentPredictsIndependent ==
    /\ \A t \in Threads :
          tloc[t].calledWith # <<>> =>
              tloc[t].calledWith = <<targ[t].x, targ[t].gene_col_name>>
    /\ (\A t \in Threads : pc[t] = "done") => fieldWrites = {}

(***************************************************************************)
(* process_data.  An AnnData is a sequence of gene symbols (the gene       *)
(* column of var), the count matrix X as one column per gene, the names of *)
(* the var columns added to it, and what its var index holds.  Slicing     *)
(* adata[:, mask] makes a new object; assignments to adata.var and         *)
(* scanpy's in-place functions change the caller's object.                 *)
(***************************************************************************)
MaxGenes == 3

NumCells == 2

GeneSymbols == {"A", "B", "C"}

\* scGPT.vocab as load_model returns it: gene symbol -> id, and the pad token.
Vocab == [g \in {"A", "B", "<pad>"} |->
             CASE g = "A" -> 0 [] g = "B" -> 1 [] OTHER -> 2]

\* The genes the species' protein-embedding reference tables know.
PeKnown == {"A", "C"}

\* A column of X: a gene expressed in the first k cells.
Column(k) == [c \in 1..NumCells |-> IF c <= k THEN 1 ELSE 0]

\* A gene is expressed in no cell, in one cell or in every cell.
ExprLevels == {0, 1, NumCells}

Adatas ==
    UNION {[genes : [1..n -> GeneSymbols],
            X : [1..n -> {Column(k) : k \in ExprLevels}],
            var_cols : {{}}, var_index : {"original"}, lognorm : {0}]
           : n \in 0..MaxGenes}

RECURSIVE Slice(_, _)
\* seq[mask]: the elements of seq at the positions where mask is TRUE.
Slice(seq, mask) ==
    IF seq = <<>> THEN <<>>
    ELSE (IF Head(mask) THEN <<Head(seq)>> ELSE <<>>)
         \o Slice(Tail(seq), Tail(mask))

\* adata[:, mask]
SliceGenes(a, mask) ==
    [a EXCEPT !.genes = Slice(a.genes, mask), !.X = Slice(a.X, mask)]

\* [vocab[gene] if gene in vocab else -1 for gene in adata.var[gene_column]]
IdInVocab(genes) ==
    [i \in DOMAIN genes |->
        IF genes[i] \in DOMAIN Vocab THEN Vocab[genes[i]] ELSE -1]

\* A bug the filter could have: the gene with id 0 is dropped too.
InVocabMaskPositive(ids) == [i \in DOMAIN ids |-> ids[i] > 0]

\* adata.var["id_in_vocab"] >= 0
InVocabMask(ids) == [i \in DOMAIN ids |-> ids[i] >= 0]

\* self.vocab(genes): the id of each gene, the default index for an unknown one
VocabCall(genes, default) ==
    [i \in DOMAIN genes |->
        IF genes[i] \in DOMAIN Vocab THEN Vocab[genes[i]] ELSE default]

\* The sets of genes sc.pp.highly_variable_genes may flag: n_top_genes of them.
HvgChoices(n, n_top_genes) ==
    {hv \in SUBSET (1..n) :
        Cardinality(hv) = IF n_top_genes < n THEN n_top_genes ELSE n}

(***************************************************************************)
(* scGPT.process_data(adata, gene_column_name, fine_tuning, n_top_genes),  *)
(* use_batch_labels = False; hv are the genes flagged highly variable.     *)
(***************************************************************************)
ScgptProcessData(a, col, fine_tuning, hv) ==
    LET \* normalize_total, log1p, highly_variable_genes work in place
        a1 == IF fine_tuning
              THEN [a EXCEPT !.lognorm = @ + 1,
                             !.var_cols = @ \cup {"highly_variable"}]
              ELSE a
        \* adata.var["id_in_vocab"] = ...
        ids == IdInVocab(a1.genes)
        a2 == [a1 EXCEPT !.var_cols = @ \cup {"id_in_vocab"}]
        \* self.adata = self.adata[:, self.adata.var['highly_variable']]
        selfAdata == IF fine_tuning
                     THEN SliceGenes(a1, [i \in DOMAIN a1.genes |-> i \in hv])
                     ELSE a2
        \* adata = adata[:, adata.var["id_in_vocab"] >= 0]
        local == SliceGenes(a2, InVocabMask(ids))
        gene_ids == VocabCall(local.genes, Vocab["<pad>"])
    IN  [adata |-> a2,
         self_adata |-> selfAdata,
         default_index |-> <<Vocab["<pad>"]>>,
         dataset |->
            IF \A i \in DOMAIN gene_ids : gene_ids[i] >= 0
            THEN [model |-> "scGPT", ok |-> TRUE, error |-> None,
                  genes |-> local.genes, gene_ids |-> gene_ids,
                  count_matrix |-> local.X, lognorm |-> local.lognorm,
                  num_cells |-> NumCells, num_genes |-> Len(gene_ids),
                  lens |-> <<>>, min_cells |-> <<>>,
                  fine_tuning |-> fine_tuning, hv |-> hv]
            ELSE [model |-> "scGPT", ok |-> FALSE, error |-> "AssertionError",
                  genes |-> <<>>, gene_ids |-> <<>>, count_matrix |-> <<>>,
                  lognorm |-> 0, num_cells |-> 0, num_genes |-> 0,
                  lens |-> <<>>, min_cells |-> <<>>,
                  fine_tuning |-> fine_tuning, hv |-> hv]]

\* The number of cells a gene (a column of X) is expressed in.
NCells(column) == Cardinality({c \in DOMAIN column : column[c] > 0})

\* sc.pp.filter_genes(adata, min_cells=k), in place
FilterGenes(a, k) ==
    [SliceGenes(a, [i \in DOMAIN a.genes |-> NCells(a.X[i]) >= k])
        EXCEPT !.var_cols = @ \cup {"n_cells"}]

\* load_gene_embeddings_adata: a copy of adata restricted to the genes that
\* have a protein embedding.
load_gene_embeddings_adata(a) ==
    SliceGenes(a, [i \in DOMAIN a.genes |-> a.genes[i] \in PeKnown])

\* A bug the alignment check could have: the chain of equalities is broken.
AlignedPairwise(n_chroms, n_starts, num_genes, n_pe) ==
    n_chroms = n_starts /\ num_genes = n_pe

\* len(dataset_chroms) == len(dataset_start) == num_genes == pe_row_idxs.shape[0]
Aligned(n_chroms, n_starts, num_genes, n_pe) ==
    n_chroms = n_starts /\ n_starts = num_genes /\ num_genes = n_pe

(***************************************************************************)
(* UCE.process_data(adata, gene_names, filter_genes_min_cell); lens are    *)
(* the lengths of dataset_chroms, dataset_start and pe_row_idxs as         *)
(* get_positions and get_protein_embeddings_idxs return them.              *)
(***************************************************************************)
UceInPlace(a, gene_names, min_cells) ==
    LET \* adata.var.index = adata.var[gene_names]
        a1 == IF gene_names # "index"
              THEN [a EXCEPT !.var_index = gene_names] ELSE a
    IN  \* sc.pp.filter_genes(adata, min_cells=filter_genes_min_cell)
        IF min_cells # <<>> THEN FilterGenes(a1, min_cells[1]) ELSE a1

UceProcessData(a, gene_names, min_cells, lens) ==
    LET a2 == UceInPlace(a, gene_names, min_cells)
        filtered_adata == load_gene_embeddings_adata(a2)
        gene_expression == a2.X
        num_genes == Len(filtered_adata.genes)
    IN  [adata |-> a2,
         dataset |->
            IF Aligned(lens[1], lens[2], num_genes, lens[3])
            THEN [model |-> "UCE", ok |-> TRUE, error |-> None,
                  genes |-> filtered_adata.genes, gene_ids |-> <<>>,
                  count_matrix |-> gene_expression, lognorm |-> a2.lognorm,
                  num_cells |-> NumCells, num_genes |-> num_genes,
                  lens |-> lens, min_cells |-> min_cells]
            ELSE [model |-> "UCE", ok |-> FALSE, error |-> "AssertionError",
                  genes |-> <<>>, gene_ids |-> <<>>, count_matrix |-> <<>>,
                  lognorm |-> 0, num_cells |-> 0, num_genes |-> 0,
                  lens |-> lens, min_cells |-> min_cells]]

\* The lengths the reference-table lookups return for n surviving genes: one
\* entry per gene, or one too few / too many from a corrupt table.
RefLens(n) ==
    IF refTables = "consistent" THEN {<<n, n, n>>}
    ELSE {l \in [1..3 -> {n - 1, n, n + 1}] : \A i \in 1..3 : l[i] >= 0}

MinCellsOpts == {<<>>} \cup {<<k>> : k \in 1..NumCells}

scgpt_process_data ==
    /\ pdOut = NoDataset
    /\ \E col \in GeneCols, fine_tuning \in BOOLEAN :
       \E hv \in IF fine_tuning
                 THEN UNION {HvgChoices(Len(adata.genes), k) : k \in 1..MaxGenes}
                 ELSE {{}} :
          LET r == ScgptProcessData(adata, col, fine_tuning, hv)
          IN  /\ adata' = r.adata
              /\ pdOut' = r.dataset
              /\ vocab_default_index' = r.default_index
              /\ scgpt_gene_column_name' = col
              /\ scgpt_adata' = r.self_adata
    /\ pdIn' = adata
    /\ UNCHANGED <<clsVars, obsVars, pc, targ, tloc, fieldWrites, refTables,
                   embRun, predRun, bench>>

uce_process_data ==
    /\ pdOut = NoDataset
    /\ \E gene_names \in GeneCols, min_cells \in MinCellsOpts :
       LET n == Len(load_gene_embeddings_adata(
                       UceInPlace(adata, gene_names, min_cells)).genes)
       IN  \E lens \in RefLens(n) :
              LET r == UceProcessData(adata, gene_names, min_cells, lens)
              IN  /\ adata' = r.adata
                  /\ pdOut' = r.dataset
    /\ pdIn' = adata
    /\ UNCHANGED <<clsVars, obsVars, concVars, vocab_default_index, refTables,
                   embRun, predRun, bench>>

DataInit ==
    /\ ClassifierInit
    /\ ConcIdle
    /\ adata \in Adatas
    /\ vocab_default_index = <<>>
    /\ refTables = "consistent"
    /\ pdIn = NoAdata
    /\ pdOut = NoDataset
    /\ EmbIdle

DataNext ==
    \/ scgpt_process_data
    \/ uce_process_data

SpecData == DataInit /\ [][DataNext]_vars

\* The annotated matrices whose genes are expressed in every cell.
AlignInit ==
    /\ ClassifierInit
    /\ ConcIdle
    /\ adata \in {a \in Adatas :
                    \A i \in DOMAIN a.X : a.X[i] = Column(NumCells)}
    /\ vocab_default_index = <<>>
    /\ refTables = "corrupt"
    /\ pdIn = NoAdata
    /\ pdOut = NoDataset
    /\ EmbIdle

AlignNext == uce_process_data

SpecAlign == AlignInit /\ [][AlignNext]_vars

(***************************************************************************)
(* The claims about process_data, checked under SpecData and SpecAlign.    *)
(***************************************************************************)
\* Whether gene i of the matrix handed in is to survive: known to the
\* vocabulary (scGPT), known to the reference tables and expressed in at
\* least min_cells cells if the filter is on (UCE).
SurvivesBySpec(i) ==
    IF pdOut.model = "scGPT"
    THEN pdIn.genes[i] \in DOMAIN Vocab
    ELSE /\ pdIn.genes[i] \in PeKnown
         /\ \/ pdOut.min_cells = <<>>
            \/ Cardinality({c \in 1..NumCells : pdIn.X[i][c] > 0})
                   >= pdOut.min_cells[1]

SurvivorsBySpec == {i \in 1..Len(pdIn.genes) : SurvivesBySpec(i)}

\* The j-th surviving position, counted from the left.
NthSurvivor(j) ==
    CHOOSE i \in SurvivorsBySpec :
        Cardinality({k \in SurvivorsBySpec : k < i}) = j - 1

C8_CountMatrixRestrictedToSurvivors ==
    (pdOut.model # None /\ pdOut.ok) =>
        /\ Len(pdOut.count_matrix) = pdOut.num_genes
        /\ \A i \in 1..Len(pdOut.lens) :
              Len(pdOut.count_matrix) = pdOut.lens[i]
        /\ \A j \in 1..Len(pdOut.count_matrix) :
              Len(pdOut.count_matrix[j]) = NumCells
        /\ pdOut.num_cells = NumCells

\* C9: dataset construction is rejected whenever one of the parallel
\* per-gene arrays (chromosomes, start positions, protein-embedding rows)
\* has a length other than the retained gene count, whichever array it is,
\* shorter or longer: it aborts with an error and returns no dataset; when
\* all lengths agree no alignment error is raised.
C9_AlignmentCheck ==
    pdOut.model = "UCE" =>
        LET n == Cardinality(SurvivorsBySpec)
            mismatch == \E i \in 1..3 : pdOut.lens[i] # n
        IN  /\ mismatch => /\ ~pdOut.ok
                           /\ pdOut.error = "AssertionError"
                           /\ pdOut.genes = <<>>
                           /\ pdOut.count_matrix = <<>>
            /\ ~mismatch => pdOut.ok /\ pdOut.error = None

\* C9 witness: two arrays agree with each other and are one longer than the
\* gene count and the third array, and the construction was rejected.
C9_Witness ==
    /\ pdOut.model = "UCE"
    /\ ~pdOut.ok
    /\ pdOut.lens[1] = Cardinality(SurvivorsBySpec) + 1
    /\ pdOut.lens[2] = pdOut.lens[1]
    /\ pdOut.lens[3] = Cardinality(SurvivorsBySpec)
    /\ Cardinality(SurvivorsBySpec) >= 1

(***************************************************************************)
(* get_embeddings.  Dataset rows are numbered 1..N and the embedding the   *)
(* model computes for row i is written i; 0 is a row of zeros.  P is the   *)
(* number of processes of the accelerator run (0: no accelerator) and rank *)
(* the process observed (0: the main process).                             *)
(***************************************************************************)
MaxRows == 4

MaxBatch == 3

MaxProcs == 2

RowsFromTo(lo, hi) == [i \in 1..(hi - lo + 1) |-> lo + i - 1]

\* The number of batches of a DataLoader with drop_last=False.
NumBatches(N, B) == (N + B - 1) \div B

\* Batch s (from 0) of a sequential DataLoader: the last one may be short.
SeqBatch(N, B, s) ==
    RowsFromTo(s * B + 1, IF (s + 1) * B < N THEN (s + 1) * B ELSE N)

\* The batches each process draws from a DataLoader the accelerator prepared.
NumSteps(N, B, P) == (N + B * P - 1) \div (B * P)

\* Batch s of process r under accelerator.prepare: the processes take the
\* batches in turn, and the end of the dataset is filled up from its start
\* so that every process gets full batches.
ShardBatch(N, B, P, r, s) ==
    IF P = 1 THEN SeqBatch(N, B, s)
    ELSE [i \in 1..B |-> (((s * P + r) * B + i - 1) % N) + 1]

RECURSIVE GatherFrom(_, _, _, _, _)
\* accelerator.gather: the processes' batches, concatenated in rank order.
GatherFrom(N, B, P, s, r) ==
    IF r = P THEN <<>>
    ELSE ShardBatch(N, B, P, r, s) \o GatherFrom(N, B, P, s, r + 1)

\* accelerator.gather_for_metrics: on the last batch the filled-up samples
\* beyond the dataset's length are dropped.
GatherForMetrics(N, B, P, s) ==
    LET all == GatherFrom(N, B, P, s, 0)
        remainder == N % (B * P)
    IN  IF s = NumSteps(N, B, P) - 1 /\ remainder > 0 /\ remainder < Len(all)
        THEN SubSeq(all, 1, remainder)
        ELSE all

\* row / np.linalg.norm(row): a row of zeros has no direction (NaN, -1).
L2Normalize(row) == IF row = 0 THEN -1 ELSE row

RECURSIVE VStack(_)
\* np.vstack(list of arrays)
VStack(arrays) ==
    IF arrays = <<>> THEN <<>> ELSE Head(arrays) \o VStack(Tail(arrays))

EmbInit ==
    /\ ClassifierInit
    /\ ConcIdle
    /\ DataIdle
    /\ predRun = [col |-> None]
    /\ bench = [constructed |-> FALSE]
    /\ \E model \in {"scGPT", "UCE"}, N \in 0..MaxRows, B \in 1..MaxBatch,
          P \in 0..MaxProcs :
       \E rank \in 0..(IF P = 0 THEN 0 ELSE P - 1) :
          /\ model = "scGPT" => P = 0
          /\ embRun = [model |-> model, N |-> N, B |-> B, P |-> P,
                       rank |-> rank, step |-> 0, count |-> 0,
                       \* np.zeros((len(dataset), embsize))
                       cell_embeddings |-> [i \in 1..N |-> 0],
                       dataset_embeds |-> <<>>, done |-> FALSE,
                       result |-> <<>>, error |-> None]

\* scGPT.get_embeddings, one pass of the loop over the data loader
scgpt_embed_batch ==
    /\ embRun.model = "scGPT"
    /\ ~embRun.done
    /\ embRun.step < NumBatches(embRun.N, embRun.B)
    /\ LET embeddings == SeqBatch(embRun.N, embRun.B, embRun.step)
           count == embRun.count
       IN  embRun' =
             [embRun EXCEPT
                !.cell_embeddings =
                    [i \in 1..embRun.N |->
                        IF count < i /\ i <= count + Len(embeddings)
                        THEN embeddings[i - count]
                        ELSE embRun.cell_embeddings[i]],
                !.count = count + Len(embeddings),
                !.step = @ + 1]
    /\ UNCHANGED <<clsVars, obsVars, concVars, dataVars, predRun, bench>>

\* scGPT.get_embeddings after the loop: normalise the rows and return
scgpt_embed_return ==
    /\ embRun.model = "scGPT"
    /\ ~embRun.done
    /\ embRun.step = NumBatches(embRun.N, embRun.B)
    /\ embRun' =
          [embRun EXCEPT
             !.result = [i \in 1..embRun.N |->
                            L2Normalize(embRun.cell_embeddings[i])],
             !.done = TRUE]
    /\ UNCHANGED <<clsVars, obsVars, concVars, dataVars, predRun, bench>>

\* The passes of UCE's loop on each process.
UceSteps(N, B, P) == IF P = 0 THEN NumBatches(N, B) ELSE NumSteps(N, B, P)

\* UCE.get_embeddings, one pass of the loop over the data loader
uce_embed_batch ==
    /\ embRun.model = "UCE"
    /\ ~embRun.done
    /\ embRun.step < UceSteps(embRun.N, embRun.B, embRun.P)
    /\ embRun' =
          [embRun EXCEPT
             !.dataset_embeds =
                 IF embRun.P = 0
                 THEN Append(@, SeqBatch(embRun.N, embRun.B, embRun.step))
                 ELSE IF embRun.rank = 0
                 THEN Append(@, GatherForMetrics(embRun.N, embRun.B, embRun.P,
                                                 embRun.step))
                 ELSE @,
             !.step = @ + 1]
    /\ UNCHANGED <<clsVars, obsVars, concVars, dataVars, predRun, bench>>

\* UCE.get_embeddings after the loop: np.vstack(dataset_embeds)
uce_embed_return ==
    /\ embRun.model = "UCE"
    /\ ~embRun.done
    /\ embRun.step = UceSteps(embRun.N, embRun.B, embRun.P)
    /\ embRun' =
          IF embRun.dataset_embeds = <<>>
          THEN [embRun EXCEPT !.error = "ValueError", !.done = TRUE]
          ELSE [embRun EXCEPT !.result = VStack(embRun.dataset_embeds),
                              !.done = TRUE]
    /\ UNCHANGED <<clsVars, obsVars, concVars, dataVars, predRun, bench>>

EmbNext ==
    \/ scgpt_embed_batch
    \/ scgpt_embed_return
    \/ uce_embed_batch
    \/ uce_embed_return

SpecEmb == EmbInit /\ [][EmbNext]_vars

\* C10: get_embeddings returns exactly one embedding row per dataset row, in
\* the dataset's row order, none duplicated, dropped or left unwritten, for
\* every dataset size and batch size, also when the batches are gathered
\* across processes through the accelerator.
C10_OneEmbeddingPerRowInOrder ==
    (embRun.model # None /\ embRun.done) =>
        /\ embRun.error = None
        /\ embRun.result = [i \in 1..embRun.N |-> i]

(***************************************************************************)
(* get_predictions called repeatedly on the same AnnData object with the   *)
(* same gene column, on a ready Classifier over scGPT or without a base    *)
(* model.  scGPT.get_embeddings collates each cell with                    *)
(* DataCollator(max_length, sampling=True, keep_first_n_tokens=1): a cell  *)
(* is the <cls> token followed by its expressed genes, and a cell longer   *)
(* than max_length keeps <cls> and a random choice of the others.          *)
(***************************************************************************)
\* The collator's max_length, scaled to the gene counts of the model.
MaxLength == 2

MaxCalls == 2

\* The genes (positions in the dataset) a cell expresses: its tokens after <cls>.
RowGenes(ds, c) == {j \in 1..Len(ds.genes) : ds.count_matrix[j][c] > 0}

\* The (gene id, value) pairs the collator may hand to the model for cell c.
SampleRow(ds, c) ==
    LET all == RowGenes(ds, c)
        kept == IF Cardinality(all) + 1 <= MaxLength THEN {all}
                ELSE {g \in SUBSET all : Cardinality(g) = MaxLength - 1}
    IN  {{<<ds.gene_ids[j], ds.count_matrix[j][c]>> : j \in g} : g \in kept}

RECURSIVE CollatedRows(_, _)
\* The inputs of the model for the cells 1..c, one choice per cell.
CollatedRows(ds, c) ==
    IF c = 0 THEN {<<>>}
    ELSE {Append(rows, r) : rows \in CollatedRows(ds, c - 1),
                            r \in SampleRow(ds, c)}

\* The embeddings scGPT.get_embeddings may return: the model is a function of
\* what the collator hands it.
ScgptEmbeddings(ds) ==
    {<<"embeddings", "scGPT", rows>> : rows \in CollatedRows(ds, ds.num_cells)}

IdemInit ==
    /\ \E bm \in {"scGPT", None}, h \in TrainableHeads :
          /\ base_model = bm
          /\ trained_task_model = h
          /\ name = <<"my model">>
          /\ gene_col_name = None
    /\ lastOp = NoOp
    /\ everBound = TRUE
    /\ trainedWith = NoTraining
    /\ ConcIdle
    /\ adata \in Adatas
    /\ vocab_default_index = <<>>
    /\ refTables = "consistent"
    /\ pdIn = NoAdata
    /\ pdOut = NoDataset
    /\ embRun = [model |-> None]
    /\ \E col \in GeneCols : predRun = [col |-> col, outs |-> <<>>]
    /\ bench = [constructed |-> FALSE]

\* Classifier.get_predictions(adata, col) with scGPT's process_data and
\* get_embeddings carried out on the data.
get_predictions_call ==
    /\ predRun.col # None
    /\ Len(predRun.outs) < MaxCalls
    /\ IF base_model # None
       THEN LET r == ScgptProcessData(adata, predRun.col, FALSE, {})
            IN  /\ gene_col_name' = predRun.col
                /\ adata' = r.adata
                /\ pdOut' = r.dataset
                /\ vocab_default_index' = r.default_index
                /\ scgpt_gene_column_name' = predRun.col
                /\ scgpt_adata' = r.self_adata
                /\ \E embeddings \in ScgptEmbeddings(r.dataset) :
                      predRun' = [predRun EXCEPT !.outs = Append(@,
                          [dataset |-> r.dataset, x |-> embeddings,
                           result |-> PredictionsOf(trained_task_model,
                                                    embeddings)])]
       ELSE /\ predRun' = [predRun EXCEPT !.outs = Append(@,
                  [dataset |-> NoDataset, x |-> adata,
                   result |-> PredictionsOf(trained_task_model, adata)])]
            /\ UNCHANGED <<gene_col_name, adata, pdOut, vocab_default_index,
                           scgpt_gene_column_name, scgpt_adata>>
    /\ pdIn' = adata
    /\ UNCHANGED <<trained_task_model, base_model, name, obsVars, pc, targ,
                   tloc, fieldWrites, refTables, embRun, bench>>

IdemNext == get_predictions_call

SpecIdem == IdemInit /\ [][IdemNext]_vars

\* C11: get_predictions is idempotent: called again with the same data and
\* gene column, with no train_classifier_head or load_model in between, it
\* computes the same dataset and embeddings and returns the same output.
C11_GetPredictionsIdempotent ==
    predRun.col # None =>
        \A i, j \in 1..Len(predRun.outs) : predRun.outs[i] = predRun.outs[j]

(***************************************************************************)
(* The benchmark Classifier (benchmark/tasks/classifier.py) over one       *)
(* NeuralNetwork task model.  Labels are strings; sklearn's LabelEncoder   *)
(* numbers the distinct labels it was fitted on in sorted order.  The task *)
(* model is one object: trained_models maps a model name to a reference to *)
(* it, and the object records the embeddings its network was fitted on.    *)
(***************************************************************************)
MaxLabels == 2

\* The label strings, in sorted order.
LabelsSorted == <<"A", "B", "C">>

LabelSet == {LabelsSorted[i] : i \in DOMAIN LabelsSorted}

Rank(l) == CHOOSE i \in DOMAIN LabelsSorted : LabelsSorted[i] = l

LabelLists == UNION {[1..n -> LabelSet] : n \in 1..MaxLabels}

\* set(labels) / np.unique(labels)
Distinct(labels) == {labels[i] : i \in DOMAIN labels}

\* LabelEncoder.transform with classes_ = classes: the index of the label
EncodeLabel(classes, l) == Cardinality({c \in classes : Rank(c) < Rank(l)})

\* LabelEncoder.fit_transform(labels): returns the new classes_ and the codes
FitTransform(labels) ==
    [classes |-> Distinct(labels),
     codes |-> [i \in DOMAIN labels |-> EncodeLabel(Distinct(labels), labels[i])]]

ModelNames == {"scgpt", "uce"}

\* A dict of embeddings by model name, as the sequence of its keys in
\* iteration order.
Dicts ==
    {<<>>} \cup {<<n>> : n \in ModelNames}
           \cup {d \in ModelNames \X ModelNames : d[1] # d[2]}

TrainEmbeddings(n) == <<"train embeddings", n>>

EvalEmbeddings(n) == <<"eval embeddings", n>>

\* The task model before compile(): no network.
Uncompiled == <<>>

\* NeuralNetwork.compile(): self.model = Sequential(...), a fresh network
Compiled == <<"untrained network">>

\* NeuralNetwork.train: self.model.fit(X_train, ...); return self
Fitted(embeddings) == <<"network fitted on", embeddings>>

\* Classifier.__init__(labels, task_model)
BenchInit ==
    /\ ClassifierInit
    /\ ConcIdle
    /\ DataIdle
    /\ embRun = [model |-> None]
    /\ predRun = [col |-> None]
    /\ \E labels \in LabelLists :
          bench = [constructed |-> TRUE,
                   labels |-> labels,
                   num_types |-> Cardinality(Distinct(labels)),
                   classes_ |-> FitTransform(labels).classes,
                   y_encoded |-> FitTransform(labels).codes,
                   fitted0 |-> FitTransform(labels).classes,
                   task_model |-> Uncompiled,
                   trained_models |-> [n \in ModelNames |-> "absent"],
                   last |-> [op |-> "init"]]

RECURSIVE TrainLoop(_, _)
\* The loop of train_task_models over the dict's items, on the Classifier b.
TrainLoop(b, items) ==
    IF items = <<>> THEN b
    ELSE LET model_name == Head(items)
             \* self.task_model.compile(): the one task model gets a new network
             b1 == [b EXCEPT !.task_model = Compiled]
             \* self.task_model.train(...) fits it and returns self
             b2 == [b1 EXCEPT !.task_model = Fitted(TrainEmbeddings(model_name))]
         IN  TrainLoop([b2 EXCEPT !.trained_models[model_name] = "task_model"],
                       Tail(items))

\* Classifier.train_task_models(x_train_embeddings)
bench_train_task_models ==
    /\ bench.constructed
    /\ \E x_train_embeddings \in Dicts :
          bench' = [TrainLoop(bench, x_train_embeddings) EXCEPT
                      !.last = [op |-> "train_task_models",
                                names |-> x_train_embeddings]]
    /\ UNCHANGED <<clsVars, obsVars, concVars, dataVars, embRun, predRun>>

\* The object a reference of trained_models points to.
Deref(b, ref) == IF ref = "task_model" THEN b.task_model ELSE Uncompiled

\* Classifier.get_predictions(x_eval_embeddings): KeyError on an unknown name
bench_get_predictions ==
    /\ bench.constructed
    /\ \E x_eval_embeddings \in Dicts :
          LET known == \A i \in DOMAIN x_eval_embeddings :
                          bench.trained_models[x_eval_embeddings[i]] # "absent"
          IN  bench' = [bench EXCEPT !.last =
                 IF known
                 THEN [op |-> "get_predictions", ok |-> TRUE,
                       names |-> x_eval_embeddings,
                       predictions |->
                          [i \in DOMAIN x_eval_embeddings |->
                              <<"predictions",
                                Deref(bench, bench.trained_models[
                                                 x_eval_embeddings[i]]),
                                EvalEmbeddings(x_eval_embeddings[i])>>]]
                 ELSE [op |-> "get_predictions", ok |-> FALSE,
                       names |-> x_eval_embeddings, predictions |-> <<>>]]
    /\ UNCHANGED <<clsVars, obsVars, concVars, dataVars, embRun, predRun>>

\* Classifier.get_evaluations(res, eval_labels): each pass of the loop calls
\* self.encoder.fit_transform(eval_labels)
bench_get_evaluations ==
    /\ bench.constructed
    /\ \E res \in Dicts,
          \* evaluation data carries labels of the training classes
          eval_labels \in {l \in LabelLists :
                              Distinct(l) \subseteq Distinct(bench.labels)} :
          bench' =
             IF res = <<>>
             THEN [bench EXCEPT !.last =
                     [op |-> "get_evaluations", names |-> res,
                      eval_labels |-> eval_labels, y_true |-> <<>>]]
             ELSE [bench EXCEPT
                     !.classes_ = FitTransform(eval_labels).classes,
                     !.last =
                        [op |-> "get_evaluations", names |-> res,
                         eval_labels |-> eval_labels,
                         y_true |-> FitTransform(eval_labels).codes]]
    /\ UNCHANGED <<clsVars, obsVars, concVars, dataVars, embRun, predRun>>

BenchNext ==
    \/ bench_train_task_models
    \/ bench_get_predictions
    \/ bench_get_evaluations

SpecBench == BenchInit /\ [][BenchNext]_vars

\* C12: the label encoder is fitted once, at construction: after any calls
\* its label-to-index mapping is the one fitted on the constructor's labels,
\* and get_evaluations encodes the ground-truth labels with that mapping,
\* also when they contain only some of the training classes.
C12_EncoderFittedOnceAtConstruction ==
    bench.constructed =>
        /\ bench.classes_ = bench.fitted0
        /\ (bench.last.op = "get_evaluations" /\ bench.last.names # <<>>)
           => bench.last.y_true =
                 [i \in DOMAIN bench.last.eval_labels |->
                     EncodeLabel(bench.fitted0, bench.last.eval_labels[i])]

(***************************************************************************)
(* Further claims about the Classifier, checked under Spec.                *)
(***************************************************************************)
\* C13: re-loading overwrites the prior state and adds nothing to it: after
\* a successful load_model the Classifier holds what this call bound (base
\* model or none, head, name) and nothing of an earlier train or load, the
\* training-time gene-column-name included.
C13_LoadOverwritesPriorState ==
    (lastOp.op = "load_model" /\ lastOp.ok) =>
        Fields = [base_model |-> lastOp.args.base_model,
                  trained_task_model |-> lastOp.args.classification_model,
                  name |-> lastOp.args.name,
                  gene_col_name |-> None]

\* C14: a train_classifier_head call on valid inputs in which no collaborator
\* fails makes these calls in this order: process_data(data, gene column),
\* get_embeddings(dataset), the split of embeddings and labels,
\* head.compile(number of distinct labels, embedding width), head.train on
\* the split; every trainable head, the repository's NeuralNetwork included,
\* accepts them, and afterwards the Classifier holds the given base model,
\* the trained head, the given gene-column-name and the composite name.
C14_TrainStepsInOrder ==
    (/\ lastOp.op = "train_classifier_head"
     /\ IsBaseModelProtocol(lastOp.args.base_model)
     /\ HasLabels(lastOp.args.x)
     /\ lastOp.args.raises = "no")
    => LET a == lastOp.args
           ds == <<"dataset", a.base_model, a.x, a.gene_col_name>>
           emb == <<"embeddings", a.base_model, ds>>
           split == <<"split", emb, <<"labels", a.x>>>>
       IN  /\ lastOp.ok
           /\ lastOp.calls =
                 << <<"process_data", a.base_model, a.x, a.gene_col_name>>,
                    <<"get_embeddings", a.base_model, ds>>,
                    <<"train_test_split", emb, <<"labels", a.x>>>>,
                    <<"compile", a.head, <<"number of distinct labels", a.x>>,
                      <<"width", emb>>>>,
                    <<"train", a.head, <<"train part", split>>,
                      <<"test part", split>>>> >>
           /\ Fields = [base_model |-> a.base_model,
                        trained_task_model |-> a.head,
                        name |-> <<a.base_model, "with", a.head>>,
                        gene_col_name |-> a.gene_col_name]

(***************************************************************************)
(* Further claims about process_data, checked under SpecData.              *)
(***************************************************************************)
\* C15: mapping gene symbols to vocabulary IDs in process_data has no side
\* effect on its inputs: when it returns, the caller's annotated matrix (its
\* gene metadata columns and index included) and the vocabulary (its default
\* index included) are as they were, and unmapped symbols raised nothing.
C15_ProcessDataLeavesInputs ==
    pdOut.model # None =>
        /\ adata = pdIn
        /\ vocab_default_index = <<>>
        /\ pdOut.ok

\* C16: scGPT.process_data with fine_tuning=True keeps only highly variable
\* genes: the dataset's genes are those flagged highly variable that the
\* vocabulary knows, in order; with fine_tuning=False no such selection is
\* applied and every vocabulary-known gene is kept.
C16_FineTuningKeepsHighlyVariableGenes ==
    (pdOut.model = "scGPT" /\ pdOut.ok) =>
        LET kept == {i \in 1..Len(pdIn.genes) :
                        /\ pdIn.genes[i] \in DOMAIN Vocab
                        /\ pdOut.fine_tuning => i \in pdOut.hv}
        IN  pdOut.genes = Slice(pdIn.genes,
                                [i \in 1..Len(pdIn.genes) |-> i \in kept])

(***************************************************************************)
(* A further claim about the benchmark Classifier, checked under SpecBench.*)
(***************************************************************************)
\* C17: after train_task_models, the head stored for each model name is one
\* trained on that model's own embeddings, whichever other models were
\* trained before or after it, and get_predictions for a model applies the
\* head fitted on that model's training embeddings.
C17_EachModelKeepsItsOwnHead ==
    bench.constructed =>
        /\ \A n \in ModelNames :
              bench.trained_models[n] # "absent" =>
                  Deref(bench, bench.trained_models[n])
                      = <<"network fitted on", <<"train embeddings", n>>>>
        /\ (bench.last.op = "get_predictions" /\ bench.last.ok) =>
              \A i \in DOMAIN bench.last.names :
                  bench.last.predictions[i] =
                      <<"predictions",
                        <<"network fitted on",
                          <<"train embeddings", bench.last.names[i]>>>>,
                        <<"eval embeddings", bench.last.names[i]>>>>

(***************************************************************************)
(* A further claim about the Classifier, checked under Spec.               *)
(***************************************************************************)
\* C18: head and base model stay paired: whenever a head is bound, the bound
\* base model is the one that head was trained on or loaded together with.
\* So a step that leaves a head bound changes the head or the base model only
\* as a train_classifier_head or load_model call that succeeded and bound
\* its own head and base model together; a failing call changes neither.
C18_HeadAndBaseModelStayPaired ==
    [][(/\ trained_task_model' # None
        /\ \/ base_model' # base_model
           \/ trained_task_model' # trained_task_model)
       => /\ lastOp'.op \in {"train_classifier_head", "load_model"}
          /\ lastOp'.ok
          /\ base_model' = lastOp'.args.base_model
          /\ trained_task_model' =
                IF lastOp'.op = "load_model"
                THEN lastOp'.args.classification_model
                ELSE lastOp'.args.head]_vars

====
